---------------------------- MODULE Spec2Model ----------------------------
(***************************************************************************)
(* AMD Sensor Fusion Hub HID client (amd-sfh-client.c).                    *)
(*                                                                         *)
(* The model follows amd_sfh_client_init, amd_sfh_hid_probe and            *)
(* amd_sfh_client_deinit statement by statement.  The HID core             *)
(* (hid_allocate_device, hid_add_device, hid_destroy_device), the devres   *)
(* allocator (devm_kzalloc), the descriptor provider (get_descriptor_size) *)
(* and the bus (amd_sfh_get_sensor_mask) are the environment: each call    *)
(* may succeed or fail, and the model keeps the heap of HID devices they   *)
(* manage.                                                                 *)
(***************************************************************************)
EXTENDS Integers, Sequences, FiniteSets

(***************************************************************************)
(* Bounds of the model.                                                    *)
(***************************************************************************)
\* amd_sfh_client_init may be entered while at most MaxStale HID devices of
\* an earlier init are still alive (0 would forbid every re-init).
MaxStale == 1
\* get_descriptor_size answers with an error, with 0 or with MaxReportSize.
MaxReportSize == 1
\* the size of the name and location fields in the specification that makes
\* strscpy truncate ("gyroscope" still fits, the other names do not)
SmallFieldSize == 10

(***************************************************************************)
(* Program constants.                                                      *)
(***************************************************************************)
AMD_SFH_HID_VENDOR == 1022
AMD_SFH_HID_PRODUCT == 1
AMD_SFH_HID_VERSION == 1
AMD_SFH_PHY_DEV ==
    <<"A", "M", "D", " ", "S", "e", "n", "s", "o", "r", " ", "F", "u", "s",
      "i", "o", "n", " ", "H", "u", "b", " ", "(", "P", "C", "I", "e", ")">>
AMD_SFH_MAX_SENSORS == 4
\* sizeof(hid->name) and sizeof(hid->phys)
HID_NAME_SIZE == 128
HID_PHYS_SIZE == 64
\* errno values returned negated
E2BIG == 7
EINVAL == 22

NULL == 0

\* enum sensor_idx, in the order amd_sfh_client_init tests the mask bits
Kinds == <<"ACCEL_IDX", "GYRO_IDX", "MAG_IDX", "ALS_IDX">>
KindSet == {Kinds[n] : n \in 1..Len(Kinds)}
\* a value of enum sensor_idx outside the four known ones
OtherIdx == "OTHER_IDX"

\* the PCI device of the unit, privdata->pci_dev
PciDev == "pci_dev"

\* handles of struct hid_device: as many as can be alive at once
HidIds == 1..(AMD_SFH_MAX_SENSORS + MaxStale)
Slots == 0..(AMD_SFH_MAX_SENSORS - 1)

(***************************************************************************)
(* amd_sfh_get_sensor_name                                                 *)
(***************************************************************************)
amd_sfh_get_sensor_name_default(sensor_idx) ==
    <<"u", "n", "k", "n", "o", "w", "n", " ", "s", "e", "n", "s", "o", "r",
      " ", "t", "y", "p", "e">>

amd_sfh_get_sensor_name(sensor_idx) ==
    CASE sensor_idx = "ACCEL_IDX" ->
           <<"a", "c", "c", "e", "l", "e", "r", "o", "m", "e", "t", "e", "r">>
      [] sensor_idx = "GYRO_IDX" ->
           <<"g", "y", "r", "o", "s", "c", "o", "p", "e">>
      [] sensor_idx = "MAG_IDX" ->
           <<"m", "a", "g", "n", "e", "t", "o", "m", "e", "t", "e", "r">>
      [] sensor_idx = "ALS_IDX" ->
           <<"a", "m", "b", "i", "e", "n", "t", " ", "l", "i", "g", "h", "t",
             " ", "s", "e", "n", "s", "o", "r">>
      [] OTHER -> amd_sfh_get_sensor_name_default(sensor_idx)

(***************************************************************************)
(* strscpy(dest, src, count): what lands in dest, and what it returns.     *)
(***************************************************************************)
strscpy_dest(src, count) ==
    IF Len(src) < count THEN src
    ELSE IF count = 0 THEN <<>> ELSE SubSeq(src, 1, count - 1)

strscpy_rc(src, count) ==
    IF Len(src) < count THEN Len(src) ELSE -E2BIG

\* "rc >= sizeof(...)": rc is an int, sizeof a size_t, so rc is converted to
\* size_t and a negative rc compares as a huge value.
\* (mutant) the comparison is made in int: -E2BIG is below every size
UnsignedGE_Signed(rc, size) == rc >= size

UnsignedGE(rc, size) == rc < 0 \/ rc >= size

(***************************************************************************)
(* The heap of struct hid_device.  hid_data and report_buf are devres of   *)
(* hid->dev: they live and die with the record.                            *)
(***************************************************************************)
NoData ==
    [alloc |-> FALSE, sensor_idx |-> "none", pci_dev |-> "none", hid |-> NULL,
     cpu_addr |-> NULL, report_size |-> -1,
     report_buf |-> [alloc |-> FALSE, size |-> 0]]

FreeHid ==
    [st |-> "free", bus |-> "none", group |-> "none", vendor |-> 0,
     product |-> 0, version |-> 0, type |-> "none", ll_driver |-> "none",
     name |-> <<>>, phys |-> <<>>, hid_data |-> NoData,
     driver_data |-> FALSE, added |-> FALSE]

VARIABLES
    pc,          \* the statement the (single) thread of control is at
    sensors,     \* privdata->sensors[]
    hidDevs,     \* the heap: handle -> struct hid_device
    sensor_mask, \* amd_sfh_client_init: sensor_mask
    i,           \* amd_sfh_client_init / _deinit: i
    blk,         \* amd_sfh_client_init: which of the four if-statements is next
    sensor_idx,  \* amd_sfh_hid_probe: sensor_idx
    hid,         \* amd_sfh_hid_probe: hid
    rc,          \* amd_sfh_hid_probe: rc
    ret,         \* amd_sfh_hid_probe: the value returned
    entry,       \* history: sensors[] when the current call was entered
    calls,       \* history: sensor_idx of every probe call of this init
    rets,        \* history: what each of those calls returned
    allocd,      \* history: what the current probe call has allocated
    destroyLog,  \* history: hid_destroy_device calls of the current probe
                 \*          call, or of the current deinit
    visitLog,    \* history: slots visited by the current deinit
    diag,        \* history: diagnostics of the current probe call
    lastCall,    \* history: the call that returned last
    fault,       \* history: hid_destroy_device was handed a dead record
    writeLog,    \* history: the indices of sensors[] the current init wrote
    maskReads,   \* history: what amd_sfh_get_sensor_mask returned to the
                 \*          current init, one entry per call of it
    staleAtInit, \* history: the records alive when the last init was entered
    failedStep,  \* history: the call that failed in the current probe call
    name_size,   \* sizeof(hid->name) of the build
    phys_size    \* sizeof(hid->phys) of the build

vars == <<pc, sensors, hidDevs, sensor_mask, i, blk, sensor_idx, hid, rc, ret,
          entry, calls, rets, allocd, destroyLog, visitLog, diag, lastCall,
          fault, writeLog, maskReads, staleAtInit, failedStep, name_size,
          phys_size>>

initLocals == <<sensor_mask, blk>>
probeLocals == <<sensor_idx, hid, rc, ret>>
history == <<entry, calls, rets, allocd, destroyLog, visitLog, diag, lastCall,
             fault>>

build == <<name_size, phys_size>>

LiveIds == {h \in HidIds : hidDevs[h].st = "live"}
Present == {s \in Slots : sensors[s] # NULL}

\* privdata is zero-allocated by the unit's probe: every slot is NULL.
InitState ==
    /\ pc = "idle"
    /\ sensors = [s \in Slots |-> NULL]
    /\ hidDevs = [h \in HidIds |-> FreeHid]
    /\ sensor_mask = {}
    /\ i = 0
    /\ blk = 0
    /\ sensor_idx = "none"
    /\ hid = NULL
    /\ rc = 0
    /\ ret = NULL
    /\ entry = [s \in Slots |-> NULL]
    /\ calls = <<>>
    /\ rets = <<>>
    /\ allocd = {}
    /\ destroyLog = <<>>
    /\ visitLog = <<>>
    /\ diag = <<>>
    /\ lastCall = "none"
    /\ fault = FALSE
    /\ writeLog = <<>>
    /\ maskReads = <<>>
    /\ staleAtInit = {}
    /\ failedStep = "none"

\* the fields of struct hid_device have the sizes of linux/hid.h
Init ==
    /\ InitState
    /\ name_size = HID_NAME_SIZE
    /\ phys_size = HID_PHYS_SIZE

\* a build whose name and location fields are too small for the strings
InitSmallFields ==
    /\ InitState
    /\ name_size = SmallFieldSize
    /\ phys_size = SmallFieldSize

(***************************************************************************)
(* The collaborators in the other files of the driver.                     *)
(***************************************************************************)
\* amd_sfh_get_sensor_mask(pci_dev): any set of the four sensor bits
amd_sfh_get_sensor_mask == SUBSET KindSet

\* get_descriptor_size(sensor_idx, AMD_SFH_INPUT_REPORT): a size (0 and
\* MaxReportSize stand for the sizes), or a negative error
get_descriptor_size(idx) == {-EINVAL, 0, MaxReportSize}

(***************************************************************************)
(* The HID core, as far as the client sees it.                             *)
(***************************************************************************)
\* hid_allocate_device: a fresh record (the lowest free handle).
NewHid == CHOOSE h \in HidIds :
              /\ hidDevs[h].st = "free"
              /\ \A g \in HidIds : hidDevs[g].st = "free" => h <= g

\* hid_destroy_device(h): hid_remove_device, then the last put_device, which
\* releases the devres of hid->dev (hid_data, report_buf) and the record.
hid_destroy_device(devs, h) == [devs EXCEPT ![h] = FreeHid]

\* the entry hid_destroy_device(h) leaves in the history
Destroyed(h) ==
    [hid |-> h, sensor_idx |-> hidDevs[h].hid_data.sensor_idx]

\* what a record holds that has to be released
Held(h) ==
    (IF hidDevs[h].st = "live" THEN {"hid"} ELSE {})
    \cup (IF hidDevs[h].hid_data.alloc THEN {"hid_data"} ELSE {})
    \cup (IF hidDevs[h].hid_data.report_buf.alloc THEN {"report_buf"} ELSE {})
    \cup (IF hidDevs[h].added THEN {"added"} ELSE {})

(***************************************************************************)
(* amd_sfh_client_init                                                     *)
(***************************************************************************)
\* line 143: the mask the function works with, m being what the bus returned
\* (mutant) every sensor is taken to be there, whatever the bus says
MaskUsed_AllSensors(m) == KindSet

MaskUsed(m) == m

\* lines 140-143: i = 0; sensor_mask = amd_sfh_get_sensor_mask(pci_dev)
ClientInitEnter ==
    /\ pc = "idle"
    /\ Cardinality(LiveIds) <= MaxStale
    /\ \E m \in amd_sfh_get_sensor_mask :
          /\ maskReads' = <<m>>
          /\ sensor_mask' = MaskUsed(m)
    /\ writeLog' = <<>>
    /\ staleAtInit' = LiveIds
    /\ failedStep' = "none"
    /\ i' = 0
    /\ blk' = 1
    /\ pc' = "init_if"
    /\ entry' = sensors
    /\ calls' = <<>>
    /\ rets' = <<>>
    /\ allocd' = {}
    /\ destroyLog' = <<>>
    /\ visitLog' = <<>>
    /\ diag' = <<>>
    /\ UNCHANGED <<sensors, hidDevs, probeLocals, lastCall, fault, build>>

\* (mutant) a failed probe ends the function
AfterBlock_AbortOnFailure ==
    IF blk < Len(Kinds) /\ ~(pc = "probe_ret" /\ ret = NULL)
    THEN /\ blk' = blk + 1
         /\ pc' = "init_if"
    ELSE /\ blk' = blk
         /\ pc' = "init_done"

\* after the if-statement number blk: the next one, or the end of the function
AfterBlock ==
    IF blk < Len(Kinds)
    THEN /\ blk' = blk + 1
         /\ pc' = "init_if"
    ELSE /\ blk' = blk
         /\ pc' = "init_done"

\* "sensor_mask & X_MASK" of the if-statement number b
\* (mutant) "|" for "&": the test is true whatever the mask
MaskBitSet_Or(b) == TRUE

MaskBitSet(b) == Kinds[b] \in sensor_mask

\* the sensor index the if-statement number b hands to amd_sfh_hid_probe
\* (mutant) every if-statement was copied from the first, index included
ProbedKind_CopyPaste(b) == Kinds[1]

ProbedKind(b) == Kinds[b]

\* "if (sensor_mask & X_MASK)" taken: the call of amd_sfh_hid_probe
InitCallProbe ==
    /\ pc = "init_if"
    /\ MaskBitSet(blk)
    /\ sensor_idx' = ProbedKind(blk)
    /\ hid' = NULL
    /\ rc' = 0
    /\ ret' = NULL
    /\ calls' = Append(calls, ProbedKind(blk))
    /\ allocd' = {}
    /\ diag' = <<>>
    /\ failedStep' = "none"
    /\ pc' = "hid_alloc"
    /\ UNCHANGED <<sensors, hidDevs, sensor_mask, i, blk, entry, rets,
                   destroyLog, visitLog, lastCall, fault, writeLog, maskReads,
                   staleAtInit, build>>

\* the value of i after "privdata->sensors[i++] = NULL"
\* (mutant) the else branch does not advance i
NullBranchNextIndex_NoIncrement == i

NullBranchNextIndex == i + 1

\* "else privdata->sensors[i++] = NULL"
InitStoreNull ==
    /\ pc = "init_if"
    /\ ~MaskBitSet(blk)
    /\ sensors' = [sensors EXCEPT ![i] = NULL]
    /\ writeLog' = Append(writeLog, i)
    /\ i' = NullBranchNextIndex
    /\ AfterBlock
    /\ UNCHANGED <<hidDevs, sensor_mask, probeLocals, history, maskReads,
                   staleAtInit, failedStep, build>>

\* what "privdata->sensors[i++] = amd_sfh_hid_probe(...)" stores
\* (mutant) the probe's record, whether or not the probe kept it
StoredResult_LocalHid == hid

StoredResult == ret

\* "privdata->sensors[i++] = amd_sfh_hid_probe(...)": the store of the
\* result; the frame of the probe call is gone
InitStoreProbe ==
    /\ pc = "probe_ret"
    /\ sensors' = [sensors EXCEPT ![i] = StoredResult]
    /\ writeLog' = Append(writeLog, i)
    /\ failedStep' = "none"
    /\ i' = i + 1
    /\ AfterBlock
    /\ sensor_idx' = "none"
    /\ hid' = NULL
    /\ rc' = 0
    /\ ret' = NULL
    /\ allocd' = {}
    /\ destroyLog' = <<>>
    /\ diag' = <<>>
    /\ UNCHANGED <<hidDevs, sensor_mask, entry, calls, rets, visitLog,
                   lastCall, fault, maskReads, staleAtInit, build>>

\* line 164: the return; the frame and the history of the call are gone
ClientInitReturn ==
    /\ pc = "init_done"
    /\ pc' = "idle"
    /\ sensor_mask' = {}
    /\ i' = 0
    /\ blk' = 0
    /\ sensor_idx' = "none"
    /\ hid' = NULL
    /\ rc' = 0
    /\ ret' = NULL
    /\ entry' = [s \in Slots |-> NULL]
    /\ calls' = <<>>
    /\ rets' = <<>>
    /\ allocd' = {}
    /\ destroyLog' = <<>>
    /\ diag' = <<>>
    /\ lastCall' = "init"
    /\ writeLog' = <<>>
    /\ maskReads' = <<>>
    /\ failedStep' = "none"
    /\ UNCHANGED <<sensors, hidDevs, visitLog, fault, staleAtInit, build>>

(***************************************************************************)
(* amd_sfh_hid_probe                                                       *)
(***************************************************************************)
\* the return statement: ret is handed to the caller
ProbeReturn(value) ==
    /\ ret' = value
    /\ rets' = Append(rets, value)
    /\ pc' = "probe_ret"

\* lines 69-85: the identity fields of a freshly allocated record
Identity(idx) ==
    [FreeHid EXCEPT
        !.st = "live",
        !.bus = "BUS_I2C",
        !.group = "HID_GROUP_SENSOR_HUB",
        !.vendor = AMD_SFH_HID_VENDOR,
        !.product = AMD_SFH_HID_PRODUCT,
        !.version = AMD_SFH_HID_VERSION,
        !.type = "HID_TYPE_OTHER",
        !.ll_driver = "amd_sfh_hid_ll_driver",
        !.name = strscpy_dest(amd_sfh_get_sensor_name(idx), name_size),
        !.phys = strscpy_dest(AMD_SFH_PHY_DEV, phys_size)]

\* the hid_warn calls of lines 80-81 and 84-85
IdentityWarnings(idx) ==
    (IF UnsignedGE(strscpy_rc(amd_sfh_get_sensor_name(idx), name_size),
                   name_size)
     THEN <<"warn: Could not set HID device name.">> ELSE <<>>)
    \o
    (IF UnsignedGE(strscpy_rc(AMD_SFH_PHY_DEV, phys_size), phys_size)
     THEN <<"warn: Could not set HID device location.">> ELSE <<>>)

\* lines 63-85: hid_allocate_device and the identity fields
ProbeAllocHid ==
    /\ pc = "hid_alloc"
    /\ \/ /\ hid' = NewHid
          /\ hidDevs' = [hidDevs EXCEPT ![NewHid] = Identity(sensor_idx)]
          /\ allocd' = allocd \cup {"hid"}
          /\ rc' = strscpy_rc(AMD_SFH_PHY_DEV, phys_size)
          /\ diag' = diag \o IdentityWarnings(sensor_idx)
          /\ pc' = "hid_data_alloc"
          /\ UNCHANGED <<ret, rets, failedStep>>
       \/ /\ diag' = Append(diag, "err: Failed to allocate HID device!")
          /\ failedStep' = "hid_allocate_device"
          /\ ProbeReturn(NULL)
          /\ UNCHANGED <<hid, hidDevs, allocd, rc>>
    /\ UNCHANGED <<sensors, sensor_mask, i, blk, sensor_idx, entry, calls,
                   destroyLog, visitLog, lastCall, fault, writeLog, maskReads,
                   staleAtInit, build>>

\* where a failed allocation of hid_data goes on
\* (mutant) to err_hid_alloc, past hid_destroy_device
DataAllocFailed_SkipDestroy == ProbeReturn(NULL)

DataAllocFailed ==
    /\ pc' = "destroy_hid_device"
    /\ UNCHANGED <<ret, rets>>

\* lines 87-94: hid_data = devm_kzalloc(...) and its first fields
ProbeAllocData ==
    /\ pc = "hid_data_alloc"
    /\ \/ /\ hidDevs' = [hidDevs EXCEPT ![hid].hid_data =
                            [NoData EXCEPT !.alloc = TRUE,
                                           !.sensor_idx = sensor_idx,
                                           !.pci_dev = PciDev,
                                           !.hid = hid,
                                           !.cpu_addr = NULL]]
          /\ allocd' = allocd \cup {"hid_data"}
          /\ pc' = "desc_size"
          /\ UNCHANGED <<ret, rets, failedStep>>
       \/ /\ failedStep' = "devm_kzalloc hid_data"
          /\ DataAllocFailed
          /\ UNCHANGED <<hidDevs, allocd>>
    /\ UNCHANGED <<sensors, sensor_mask, i, blk, sensor_idx, hid, rc, entry,
                   calls, destroyLog, visitLog, diag, lastCall, fault,
                   writeLog, maskReads, staleAtInit, build>>

\* lines 96-102: rc = get_descriptor_size(sensor_idx, AMD_SFH_INPUT_REPORT)
ProbeDescSize ==
    /\ pc = "desc_size"
    /\ \E r \in get_descriptor_size(sensor_idx) :
          /\ rc' = r
          /\ IF r < 0
             THEN /\ diag' = Append(diag,
                                "err: Failed to get input descriptor size!")
                  /\ failedStep' = "get_descriptor_size"
                  /\ pc' = "destroy_hid_device"
                  /\ UNCHANGED hidDevs
             ELSE /\ hidDevs' = [hidDevs EXCEPT ![hid].hid_data.report_size = r]
                  /\ pc' = "report_buf_alloc"
                  /\ UNCHANGED <<diag, failedStep>>
    /\ UNCHANGED <<sensors, sensor_mask, i, blk, sensor_idx, hid, ret, entry,
                   calls, rets, allocd, destroyLog, visitLog, lastCall,
                   fault, writeLog, maskReads, staleAtInit, build>>

\* the size handed to devm_kzalloc for the report buffer
\* (mutant) the size of the pointer instead of the size of the report
ReportBufSize_Pointer(h) == 8

ReportBufSize(h) == hidDevs[h].hid_data.report_size

\* where a failed allocation of the report buffer goes on
\* (mutant) to err_hid_alloc, past hid_destroy_device
BufAllocFailed_SkipDestroy == ProbeReturn(NULL)

BufAllocFailed ==
    /\ pc' = "destroy_hid_device"
    /\ UNCHANGED <<ret, rets>>

\* lines 104-109: hid_data->report_buf = devm_kzalloc(..., report_size, ...)
ProbeAllocBuf ==
    /\ pc = "report_buf_alloc"
    /\ \/ /\ hidDevs' = [hidDevs EXCEPT ![hid].hid_data.report_buf =
                            [alloc |-> TRUE, size |-> ReportBufSize(hid)]]
          /\ allocd' = allocd \cup {"report_buf"}
          /\ pc' = "hid_add"
          /\ UNCHANGED <<diag, ret, rets, failedStep>>
       \/ /\ diag' = Append(diag,
                       "err: Failed to allocate memory for report buffer!")
          /\ failedStep' = "devm_kzalloc report_buf"
          /\ BufAllocFailed
          /\ UNCHANGED <<hidDevs, allocd>>
    /\ UNCHANGED <<sensors, sensor_mask, i, blk, sensor_idx, hid, rc, entry,
                   calls, destroyLog, visitLog, lastCall, fault, writeLog,
                   maskReads, staleAtInit, build>>

\* line 111: what hid->driver_data is when hid_add_device is called
\* (mutant) the assignment comes after hid_add_device, not before it
DriverDataAttached_Late == FALSE

DriverDataAttached == TRUE

\* line 111: hid->driver_data = hid_data
ProbeAttach ==
    /\ pc = "hid_add"
    /\ hidDevs' = [hidDevs EXCEPT ![hid].driver_data = DriverDataAttached]
    /\ pc' = "hid_add_device"
    /\ UNCHANGED <<sensors, sensor_mask, i, blk, probeLocals, history,
                   writeLog, maskReads, staleAtInit, failedStep, build>>

\* lines 113-119: rc = hid_add_device(hid), and the successful return
ProbeAdd ==
    /\ pc = "hid_add_device"
    /\ \/ /\ hidDevs' = [hidDevs EXCEPT ![hid].added = TRUE]
          /\ allocd' = allocd \cup {"added"}
          /\ rc' = 0
          /\ ProbeReturn(hid)
          /\ UNCHANGED <<diag, failedStep>>
       \/ /\ rc' = -EINVAL
          /\ diag' = Append(diag, "err: Failed to add HID device")
          /\ failedStep' = "hid_add_device"
          /\ pc' = "destroy_hid_device"
          /\ UNCHANGED <<hidDevs, allocd, ret, rets>>
    /\ UNCHANGED <<sensors, sensor_mask, i, blk, sensor_idx, hid, entry,
                   calls, destroyLog, visitLog, lastCall, fault, writeLog,
                   maskReads, staleAtInit, build>>

\* (mutant) the record is destroyed a second time before the return
ProbeDestroy_Twice ==
    /\ pc = "destroy_hid_device"
    /\ hidDevs' = hid_destroy_device(hid_destroy_device(hidDevs, hid), hid)
    /\ destroyLog' = destroyLog \o <<Destroyed(hid), Destroyed(hid)>>
    /\ fault' = TRUE
    /\ ProbeReturn(NULL)
    /\ UNCHANGED <<sensors, sensor_mask, i, blk, sensor_idx, hid, rc, entry,
                   calls, allocd, visitLog, diag, lastCall, writeLog,
                   maskReads, staleAtInit, failedStep, build>>

\* lines 121-124: destroy_hid_device: hid_destroy_device(hid); return NULL
ProbeDestroy ==
    /\ pc = "destroy_hid_device"
    /\ hidDevs' = hid_destroy_device(hidDevs, hid)
    /\ destroyLog' = Append(destroyLog, Destroyed(hid))
    /\ fault' = (fault \/ hidDevs[hid].st # "live")
    /\ ProbeReturn(NULL)
    /\ UNCHANGED <<sensors, sensor_mask, i, blk, sensor_idx, hid, rc, entry,
                   calls, allocd, visitLog, diag, lastCall, writeLog,
                   maskReads, staleAtInit, failedStep, build>>

(***************************************************************************)
(* amd_sfh_client_deinit                                                   *)
(***************************************************************************)
\* line 176: i = 0
ClientDeinitEnter ==
    /\ pc = "idle"
    /\ i' = 0
    /\ pc' = "deinit_loop"
    /\ entry' = sensors
    /\ destroyLog' = <<>>
    /\ visitLog' = <<>>
    /\ UNCHANGED <<sensors, hidDevs, initLocals, probeLocals, calls, rets,
                   allocd, diag, lastCall, fault, writeLog, maskReads,
                   staleAtInit, failedStep, build>>

\* line 176: the loop condition
\* (mutant) the loop stops one slot early
DeinitLoopCond_OffByOne == i < AMD_SFH_MAX_SENSORS - 1

DeinitLoopCond == i < AMD_SFH_MAX_SENSORS

\* the slot the loop body works on
\* (mutant) the loop walks the registry from its end
DeinitIndex_Reverse == AMD_SFH_MAX_SENSORS - 1 - i

DeinitIndex == i

\* line 180: what the loop body leaves in the slot
\* (mutant) the slot keeps the destroyed device
DeinitCleared_Keep(s) == sensors[s]

DeinitCleared(s) == NULL

\* line 177: whether the loop body destroys what slot s holds
\* (mutant) the slot is cleared and its device is left alone
DeinitDestroys_Never(s) == FALSE

DeinitDestroys(s) == sensors[s] # NULL

\* lines 176-181: one turn of the loop
DeinitSlot ==
    /\ pc = "deinit_loop"
    /\ DeinitLoopCond
    /\ IF DeinitDestroys(DeinitIndex)
       THEN /\ hidDevs' = hid_destroy_device(hidDevs, sensors[DeinitIndex])
            /\ destroyLog' = Append(destroyLog, Destroyed(sensors[DeinitIndex]))
            /\ fault' = (fault \/ hidDevs[sensors[DeinitIndex]].st # "live")
       ELSE UNCHANGED <<hidDevs, destroyLog, fault>>
    /\ sensors' = [sensors EXCEPT ![DeinitIndex] = DeinitCleared(DeinitIndex)]
    /\ visitLog' = Append(visitLog, DeinitIndex)
    /\ i' = i + 1
    /\ UNCHANGED <<pc, initLocals, probeLocals, entry, calls, rets, allocd,
                   diag, lastCall, writeLog, maskReads, staleAtInit,
                   failedStep, build>>

\* line 176: the loop condition fails
DeinitLoopEnd ==
    /\ pc = "deinit_loop"
    /\ ~DeinitLoopCond
    /\ pc' = "deinit_done"
    /\ UNCHANGED <<sensors, hidDevs, sensor_mask, i, blk, probeLocals, history,
                   writeLog, maskReads, staleAtInit, failedStep, build>>

\* line 182: the return
ClientDeinitReturn ==
    /\ pc = "deinit_done"
    /\ pc' = "idle"
    /\ i' = 0
    /\ entry' = [s \in Slots |-> NULL]
    /\ destroyLog' = <<>>
    /\ visitLog' = <<>>
    /\ lastCall' = "deinit"
    /\ UNCHANGED <<sensors, hidDevs, initLocals, probeLocals, calls, rets,
                   allocd, diag, fault, writeLog, maskReads, staleAtInit,
                   failedStep, build>>

Next ==
    \/ ClientInitEnter
    \/ InitCallProbe
    \/ InitStoreNull
    \/ InitStoreProbe
    \/ ClientInitReturn
    \/ ProbeAllocHid
    \/ ProbeAllocData
    \/ ProbeDescSize
    \/ ProbeAllocBuf
    \/ ProbeAttach
    \/ ProbeAdd
    \/ ProbeDestroy
    \/ ClientDeinitEnter
    \/ DeinitSlot
    \/ DeinitLoopEnd
    \/ ClientDeinitReturn

Spec == Init /\ [][Next]_vars

\* the same program, built with fields too small for the strings
SpecSmallFields == InitSmallFields /\ [][Next]_vars

TypeOK ==
    /\ pc \in {"idle", "init_if", "init_done", "hid_alloc", "hid_data_alloc",
               "desc_size", "report_buf_alloc", "hid_add", "hid_add_device",
               "destroy_hid_device", "probe_ret", "deinit_loop", "deinit_done"}
    /\ sensors \in [Slots -> HidIds \cup {NULL}]
    /\ sensor_mask \subseteq KindSet
    /\ i \in 0..AMD_SFH_MAX_SENSORS
    /\ blk \in 0..Len(Kinds)
    /\ hid \in HidIds \cup {NULL}
    /\ ret \in HidIds \cup {NULL}


(***************************************************************************)
(* Properties.                                                             *)
(***************************************************************************)
AllAbsent(reg) == \A s \in Slots : reg[s] = NULL

\* the probe call for kind k of the current init returned a device
Succeeded(k) == \E j \in 1..Len(rets) : calls[j] = k /\ rets[j] # NULL

IsDevice(x) == x # NULL

\* the devices a registry holds, in slot order
HeldSeq(reg) ==
    SelectSeq([n \in 1..AMD_SFH_MAX_SENSORS |-> reg[n - 1]], IsDevice)

\* C1 (mask fidelity): when amd_sfh_client_init, entered with every slot
\* NULL, is at its return, the slot of a kind is non-NULL if and only if the
\* kind's bit is set in the mask and amd_sfh_hid_probe returned a device for
\* it; otherwise the slot is NULL.
C1_MaskFidelity ==
    (pc = "init_done" /\ AllAbsent(entry)) =>
        /\ Len(rets) = Len(calls)
        /\ \A n \in 1..Len(Kinds) :
              (sensors[n - 1] # NULL)
                  <=> (Kinds[n] \in sensor_mask /\ Succeeded(Kinds[n]))

\* C1 witness: an init from the empty registry returns with one bit unset,
\* one kind failed and two kinds created.
C1_Witness ==
    /\ pc = "init_done"
    /\ AllAbsent(entry)
    /\ sensor_mask = {"ACCEL_IDX", "GYRO_IDX", "ALS_IDX"}
    /\ sensors[0] # NULL
    /\ sensors[1] = NULL
    /\ sensors[2] = NULL
    /\ sensors[3] # NULL

\* C2 (partial-failure isolation): when init is at its return and the probe
\* of kind K failed, every other kind whose bit is set was probed exactly
\* once, and every other slot holds what the mask without K's bit and that
\* kind's own probe result give: the device that probe returned, or NULL.
C2_PartialFailureIsolation ==
    pc = "init_done" =>
        \A j \in 1..Len(rets) : rets[j] = NULL =>
            LET K == calls[j]
                others == sensor_mask \ {K}
            IN  /\ \A k \in others :
                      Cardinality({m \in 1..Len(calls) : calls[m] = k}) = 1
                /\ \A n \in 1..Len(Kinds) : Kinds[n] # K =>
                      /\ (sensors[n - 1] # NULL)
                            <=> (Kinds[n] \in others /\ Succeeded(Kinds[n]))
                      /\ sensors[n - 1] # NULL =>
                            /\ \E m \in 1..Len(rets) :
                                  /\ calls[m] = Kinds[n]
                                  /\ rets[m] = sensors[n - 1]
                            /\ hidDevs[sensors[n - 1]].added
                            /\ hidDevs[sensors[n - 1]].hid_data.sensor_idx
                                  = Kinds[n]

\* C2 witness: the first kind failed and the three after it were created.
C2_Witness ==
    /\ pc = "init_done"
    /\ sensor_mask = KindSet
    /\ rets[1] = NULL
    /\ sensors[0] = NULL
    /\ sensors[1] # NULL
    /\ sensors[2] # NULL
    /\ sensors[3] # NULL

\* C3 (no leak on failed create): when amd_sfh_hid_probe returns NULL,
\* nothing the call allocated (record, hid_data, report buffer, registration)
\* is still held.
C3_NoLeakOnFailedCreate ==
    (pc = "probe_ret" /\ ret = NULL) =>
        /\ allocd # {} => hid # NULL
        /\ hid # NULL => allocd \cap Held(hid) = {}

\* C3 witness: the descriptor size lookup failed after the record and
\* hid_data were allocated, and the probe has returned NULL.
C3_Witness ==
    /\ pc = "probe_ret"
    /\ ret = NULL
    /\ rc = -EINVAL
    /\ allocd = {"hid", "hid_data"}

\* C4 (exactly-once rollback): when the probe returns NULL after the record
\* was allocated, hid_destroy_device was called on the record exactly once
\* and the record is released; when the allocation of the record failed, it
\* was not called; when the probe returns a device, it was not called and
\* the device is alive.  No record is destroyed twice.
C4_ExactlyOnceRollback ==
    pc = "probe_ret" =>
        /\ (ret = NULL /\ "hid" \in allocd) =>
              /\ Len(destroyLog) = 1
              /\ destroyLog[1].hid = hid
              /\ hidDevs[hid].st = "free"
        /\ (ret = NULL /\ "hid" \notin allocd) =>
              /\ destroyLog = <<>>
              /\ hid = NULL
        /\ ret # NULL =>
              /\ destroyLog = <<>>
              /\ hidDevs[ret].st = "live"
        /\ ~fault

\* C4 witness: hid_add_device failed on a fully built record, and the probe
\* has returned NULL after one hid_destroy_device.
C4_Witness ==
    /\ pc = "probe_ret"
    /\ ret = NULL
    /\ allocd = {"hid", "hid_data", "report_buf"}
    /\ diag = <<"err: Failed to add HID device">>
    /\ Len(destroyLog) = 1

\* C5 (deinit empties the registry): when amd_sfh_client_deinit is at its
\* return, it has visited the slots 0..3 once each, it has destroyed exactly
\* the devices the registry held on entry, and every slot is NULL.
C5_DeinitEmptiesRegistry ==
    pc = "deinit_done" =>
        /\ visitLog = [n \in 1..AMD_SFH_MAX_SENSORS |-> n - 1]
        /\ AllAbsent(sensors)
        /\ [j \in 1..Len(destroyLog) |-> destroyLog[j].hid] = HeldSeq(entry)
        /\ \A s \in Slots : entry[s] # NULL => hidDevs[entry[s]].st = "free"
        /\ ~fault

\* C5 witness: deinit returns from a registry that held devices in some
\* slots and none in others.
C5_Witness ==
    /\ pc = "deinit_done"
    /\ entry[0] = NULL
    /\ entry[1] # NULL
    /\ entry[2] = NULL
    /\ entry[3] # NULL
    /\ AllAbsent(sensors)

\* C6 (teardown idempotence): every deinit leaves every slot NULL; a deinit
\* entered on an empty registry destroys nothing; a deinit that follows a
\* deinit finds the registry empty, destroys nothing and leaves it as it
\* found it.
C6_TeardownIdempotence ==
    pc = "deinit_done" =>
        /\ AllAbsent(sensors)
        /\ AllAbsent(entry) => destroyLog = <<>>
        /\ lastCall = "deinit" =>
              /\ AllAbsent(entry)
              /\ destroyLog = <<>>
              /\ sensors = entry

\* C6 witness: the second of two deinit calls in succession is at its
\* return.
C6_Witness ==
    /\ pc = "deinit_done"
    /\ lastCall = "deinit"
    /\ destroyLog = <<>>
    /\ Len(visitLog) = AMD_SFH_MAX_SENSORS

\* C7 (per-slot state machine): in every step a slot that changes goes from
\* NULL to a device that was created and registered, or from a device to
\* NULL with that device destroyed; a slot holding a device is never
\* overwritten while the device is alive.
C7_SlotStateMachine ==
    [][\A s \in Slots : sensors'[s] # sensors[s] =>
          \/ /\ sensors[s] = NULL
             /\ hidDevs'[sensors'[s]].added
          \/ /\ sensors[s] # NULL
             /\ sensors'[s] = NULL
             /\ hidDevs'[sensors[s]].st = "free"]_vars

\* C8 (registry/subsystem consistency): whenever no call is running, or init
\* or deinit is at its return, the devices in the slots are exactly the
\* devices registered with the HID core and not yet destroyed.
C8_RegistryMatchesSubsystem ==
    pc \in {"idle", "init_done", "deinit_done"} =>
        {sensors[s] : s \in Present} = {h \in HidIds : hidDevs[h].added}

\* the place of a kind in the catalog order
Ord(k) == CHOOSE n \in 1..Len(Kinds) : Kinds[n] = k

CreatedAtEntry(k) == entry[Ord(k) - 1] # NULL

\* C9 (teardown count and order): when deinit is at its return,
\* hid_destroy_device was called once for each device the registry held on
\* entry and for nothing else, and the kinds of the destroyed devices are the
\* kinds created by the init before, in catalog order.
C9_TeardownCountAndOrder ==
    pc = "deinit_done" =>
        /\ Len(destroyLog)
              = Cardinality({k \in KindSet : CreatedAtEntry(k)})
        /\ [j \in 1..Len(destroyLog) |-> destroyLog[j].sensor_idx]
              = SelectSeq(Kinds, CreatedAtEntry)
        /\ [j \in 1..Len(destroyLog) |-> destroyLog[j].hid] = HeldSeq(entry)

\* C9 witness: after an init that created the accelerometer and the ambient
\* light sensor only, deinit returns having destroyed the two in that order.
C9_Witness ==
    /\ pc = "deinit_done"
    /\ lastCall = "init"
    /\ entry[0] # NULL
    /\ entry[1] = NULL
    /\ entry[2] = NULL
    /\ entry[3] # NULL
    /\ Len(destroyLog) = 2
    /\ destroyLog[1].sensor_idx = "ACCEL_IDX"
    /\ destroyLog[2].sensor_idx = "ALS_IDX"

\* what a registered device of the unit carries
RoundTrip(h) ==
    LET d == hidDevs[h]
    IN  /\ d.st = "live"
        /\ d.hid_data.alloc
        /\ d.driver_data
        /\ d.hid_data.sensor_idx \in KindSet
        /\ d.name = amd_sfh_get_sensor_name(d.hid_data.sensor_idx)
        /\ d.hid_data.pci_dev = PciDev
        /\ d.hid_data.hid = h
        /\ d.hid_data.report_buf.alloc
        /\ d.hid_data.report_size >= 0
        /\ d.hid_data.report_buf.size = d.hid_data.report_size

\* C10 (round-trip identity): every registered device carries the catalog
\* name of its kind, its kind, the unit's PCI device and a report buffer of
\* the recorded report size; the device a probe call returns is of the kind
\* the call was made for; the recorded size is the value get_descriptor_size
\* returned (still in rc until hid_add_device); a sensor index outside the
\* four known ones is named "unknown sensor type".
C10_RoundTripIdentity ==
    /\ \A h \in HidIds : hidDevs[h].added => RoundTrip(h)
    /\ (pc = "probe_ret" /\ ret # NULL) =>
          /\ hidDevs[ret].added
          /\ hidDevs[ret].hid_data.sensor_idx = sensor_idx
          /\ hidDevs[ret].name = amd_sfh_get_sensor_name(sensor_idx)
    /\ pc \in {"report_buf_alloc", "hid_add", "hid_add_device"} =>
          hidDevs[hid].hid_data.report_size = rc
    /\ pc \in {"hid_add", "hid_add_device"} =>
          hidDevs[hid].hid_data.report_buf.size = rc
    /\ amd_sfh_get_sensor_name(OtherIdx)
          = <<"u", "n", "k", "n", "o", "w", "n", " ", "s", "e", "n", "s",
              "o", "r", " ", "t", "y", "p", "e">>

\* C10 witness: a probe for the ambient light sensor has returned a
\* registered device with a report buffer of non-zero size.
C10_Witness ==
    /\ pc = "probe_ret"
    /\ ret # NULL
    /\ sensor_idx = "ALS_IDX"
    /\ hidDevs[ret].added
    /\ hidDevs[ret].hid_data.report_buf.size = MaxReportSize
    /\ Len(hidDevs[ret].name) = 20

\* the error-level diagnostics of amd_sfh_hid_probe (pci_err, hid_err)
ErrorDiagnostics ==
    {"err: Failed to allocate HID device!",
     "err: Failed to get input descriptor size!",
     "err: Failed to allocate memory for report buffer!",
     "err: Failed to add HID device"}

\* C11 (error diagnostic on every failure): when amd_sfh_hid_probe is at its
\* return with NULL, it has emitted an error-level diagnostic, whichever step
\* failed.
C11_ErrorDiagnosticOnFailure ==
    (pc = "probe_ret" /\ ret = NULL) =>
        \E j \in 1..Len(diag) : diag[j] \in ErrorDiagnostics

InMask(k) == k \in sensor_mask

\* the statements of amd_sfh_hid_probe
ProbeLabels ==
    {"hid_alloc", "hid_data_alloc", "desc_size", "report_buf_alloc",
     "hid_add", "hid_add_device", "destroy_hid_device", "probe_ret"}

\* C12 (slot/kind correspondence): slot number s of the registry holds NULL
\* or a live, registered device whose sensor index is the kind of ordinal s,
\* at every moment and for every mask; in particular a kind keeps its slot
\* when the bits of the kinds before it are unset.
C12_SlotKindCorrespondence ==
    \A s \in Slots :
        sensors[s] # NULL =>
            /\ hidDevs[sensors[s]].st = "live"
            /\ hidDevs[sensors[s]].added
            /\ hidDevs[sensors[s]].hid_data.sensor_idx = Kinds[s + 1]
            /\ Ord(hidDevs[sensors[s]].hid_data.sensor_idx) - 1 = s

\* C12 witness: init with only the ambient light sensor's bit set is at its
\* return and the ambient light sensor's device is in slot 3, not in slot 0.
C12_Witness ==
    /\ pc = "init_done"
    /\ sensor_mask = {"ALS_IDX"}
    /\ sensors[0] = NULL
    /\ sensors[1] = NULL
    /\ sensors[2] = NULL
    /\ sensors[3] # NULL
    /\ hidDevs[sensors[3]].hid_data.sensor_idx = "ALS_IDX"

\* C13 (order and count of creation attempts): the probe calls init has made
\* so far are the kinds with their bit set among the if-statements passed, in
\* catalog order, each once; at the return of init they are exactly the kinds
\* of the mask in catalog order, so no kind with an unset bit was probed and
\* no failed kind was probed again; as many results as calls came back.
C13_CreationAttempts ==
    /\ pc = "init_if" =>
          calls = SelectSeq(SubSeq(Kinds, 1, blk - 1), InMask)
    /\ pc \in ProbeLabels =>
          /\ InMask(Kinds[blk])
          /\ sensor_idx = Kinds[blk]
          /\ calls = SelectSeq(SubSeq(Kinds, 1, blk), InMask)
    /\ pc = "init_done" =>
          /\ calls = SelectSeq(Kinds, InMask)
          /\ Len(calls) = Cardinality(sensor_mask)
          /\ Len(rets) = Len(calls)
          /\ \A k \in KindSet :
                Cardinality({j \in 1..Len(calls) : calls[j] = k})
                    = (IF k \in sensor_mask THEN 1 ELSE 0)

\* C13 witness: init with the gyroscope's and the ambient light sensor's bits
\* set is at its return; the gyroscope's probe failed and was not repeated.
C13_Witness ==
    /\ pc = "init_done"
    /\ sensor_mask = {"GYRO_IDX", "ALS_IDX"}
    /\ calls = <<"GYRO_IDX", "ALS_IDX">>
    /\ rets[1] = NULL
    /\ rets[2] # NULL

\* C14 (every slot written once, none beyond): the indices init has written
\* are 0, 1, ... in this order, one per if-statement passed, all of them
\* slots of the registry; at the return of init they are 0..3, each once,
\* and as many as the AMD_SFH_MAX_SENSORS slots deinit walks.
C14_SlotsWrittenOnce ==
    /\ pc \in {"init_if", "init_done"} \cup ProbeLabels =>
          /\ writeLog = [n \in 1..Len(writeLog) |-> n - 1]
          /\ \A n \in 1..Len(writeLog) : writeLog[n] \in Slots
          /\ i = Len(writeLog)
    /\ pc = "init_if" => Len(writeLog) = blk - 1
    /\ pc \in ProbeLabels => Len(writeLog) = blk - 1
    /\ pc = "init_done" =>
          /\ writeLog = <<0, 1, 2, 3>>
          /\ Len(writeLog) = AMD_SFH_MAX_SENSORS
          /\ {writeLog[n] : n \in 1..Len(writeLog)} = Slots
    /\ pc = "deinit_done" =>
          {visitLog[n] : n \in 1..Len(visitLog)} = Slots

\* C14 witness: init with a set and an unset bit before the magnetometer is
\* at its return, having written through both branches.
C14_Witness ==
    /\ pc = "init_done"
    /\ sensor_mask = {"ACCEL_IDX", "MAG_IDX"}
    /\ writeLog = <<0, 1, 2, 3>>
    /\ sensors[2] # NULL
    /\ sensors[3] = NULL

\* the records under construction: something of them is allocated and they
\* are not registered
Partial == {h \in HidIds : Held(h) # {} /\ ~hidDevs[h].added}

\* C15 (rollback precedes the next kind): there is never more than one
\* partial device; there is one only between hid_allocate_device and the end
\* of the probe call that is building it, and it is of the kind that call was
\* made for; when a probe call is at its return with NULL, and so whenever
\* init goes on to the next if-statement, nothing of the record is left.
C15_RollbackPrecedesNextKind ==
    /\ Cardinality(Partial) <= 1
    /\ Partial # {} =>
          /\ pc \in {"hid_data_alloc", "desc_size", "report_buf_alloc",
                     "hid_add", "hid_add_device", "destroy_hid_device"}
          /\ Partial = {hid}
          /\ hidDevs[hid].hid_data.sensor_idx \in {"none", sensor_idx}
    /\ pc \in {"idle", "init_if", "hid_alloc", "probe_ret", "init_done",
               "deinit_loop", "deinit_done"} => Partial = {}
    /\ (pc = "probe_ret" /\ ret = NULL /\ hid # NULL) => Held(hid) = {}

\* C15 witness: the accelerometer's probe has failed and the gyroscope's
\* probe is at its first statement; nothing partial is left.
C15_Witness ==
    /\ pc = "hid_alloc"
    /\ sensor_idx = "GYRO_IDX"
    /\ calls = <<"ACCEL_IDX", "GYRO_IDX">>
    /\ rets = <<NULL>>
    /\ Partial = {}

\* the private data of record h is complete
Attached(h) ==
    /\ hidDevs[h].st = "live"
    /\ hidDevs[h].driver_data
    /\ hidDevs[h].hid_data.alloc
    /\ hidDevs[h].hid_data.sensor_idx \in KindSet
    /\ hidDevs[h].hid_data.pci_dev = PciDev
    /\ hidDevs[h].hid_data.report_buf.alloc
    /\ hidDevs[h].hid_data.report_size \in {0, MaxReportSize}
    /\ hidDevs[h].hid_data.report_buf.size = hidDevs[h].hid_data.report_size

\* C16 (registered only when complete): when hid_add_device is about to be
\* called the record is not registered and its private data (kind, PCI
\* device, report buffer, report size) is attached; before that statement
\* the record of the running probe is not registered; every registered
\* device has its private data attached and a report buffer of the recorded
\* size.
C16_RegisteredAfterAttached ==
    /\ pc = "hid_add_device" =>
          /\ ~hidDevs[hid].added
          /\ Attached(hid)
          /\ hidDevs[hid].hid_data.sensor_idx = sensor_idx
    /\ pc \in {"hid_data_alloc", "desc_size", "report_buf_alloc", "hid_add"}
          => ~hidDevs[hid].added
    /\ \A h \in HidIds : hidDevs[h].added => Attached(h)

\* C16 witness: the magnetometer's probe has registered its device, which
\* carries a report buffer of the recorded, non-zero size.
C16_Witness ==
    /\ pc = "probe_ret"
    /\ ret # NULL
    /\ sensor_idx = "MAG_IDX"
    /\ hidDevs[ret].added
    /\ hidDevs[ret].driver_data
    /\ hidDevs[ret].hid_data.report_size = MaxReportSize
    /\ hidDevs[ret].hid_data.report_buf.size = MaxReportSize

\* C17 (leak-free lifecycle): when the deinit that follows an init is at its
\* return, every record that init allocated is released with its private
\* data and its report buffer, hid_destroy_device was never handed a record
\* already released (by the probe's rollback or by anything else), and no
\* device is registered that was not registered before the init; when the
\* init was entered with nothing allocated, nothing is allocated or
\* registered afterwards.
C17_LeakFreeLifecycle ==
    /\ ~fault
    /\ (pc = "deinit_done" /\ lastCall = "init") =>
          /\ LiveIds \subseteq staleAtInit
          /\ \A h \in HidIds \ staleAtInit : Held(h) = {}
          /\ staleAtInit = {} => \A h \in HidIds : Held(h) = {}
          /\ Len(destroyLog) = Cardinality({s \in Slots : entry[s] # NULL})
          /\ \A j, k \in 1..Len(destroyLog) :
                destroyLog[j].hid = destroyLog[k].hid => j = k

\* C17 witness: an init entered with nothing allocated created two devices,
\* and the deinit after it is at its return, having destroyed both.
C17_Witness ==
    /\ pc = "deinit_done"
    /\ lastCall = "init"
    /\ staleAtInit = {}
    /\ Len(destroyLog) = 2
    /\ entry[1] # NULL
    /\ entry[2] # NULL
    /\ LiveIds = {}

\* the kind of slot s is in the mask the current init read
ReadBit(s) == Kinds[s + 1] \in maskReads[1]

\* C18 (mask read fresh): an init in progress has called
\* amd_sfh_get_sensor_mask once and works with the value it returned; at the
\* return of init the probe calls made are the kinds of that value and a
\* slot is non-NULL if and only if its kind is in that value and its probe
\* succeeded, whatever the registry held and whatever masks were read before.
C18_MaskReadFresh ==
    /\ pc \in {"init_if", "init_done"} \cup ProbeLabels =>
          /\ Len(maskReads) = 1
          /\ sensor_mask = maskReads[1]
    /\ pc = "init_done" =>
          /\ \A s \in Slots :
                sensors[s] # NULL <=> (ReadBit(s) /\ Succeeded(Kinds[s + 1]))
          /\ {calls[j] : j \in 1..Len(calls)} = maskReads[1]
    /\ pc \in {"idle", "deinit_loop", "deinit_done"} => maskReads = <<>>

\* C18 witness: an init that comes after a deinit is at its return, having
\* read a mask with the magnetometer's bit alone and created that device.
C18_Witness ==
    /\ pc = "init_done"
    /\ lastCall = "deinit"
    /\ maskReads = <<{"MAG_IDX"}>>
    /\ sensors[0] = NULL
    /\ sensors[1] = NULL
    /\ sensors[2] # NULL
    /\ sensors[3] = NULL

NameWarning == "warn: Could not set HID device name."

PhysWarning == "warn: Could not set HID device location."

Emitted(d) == \E j \in 1..Len(diag) : diag[j] = d

NameTruncated(idx) == Len(amd_sfh_get_sensor_name(idx)) >= name_size

PhysTruncated == Len(AMD_SFH_PHY_DEV) >= phys_size

\* C19 (truncation is non-fatal): when the name or the location string does
\* not fit its field, the probe warns, keeps the truncated string and goes on
\* to the allocation of hid_data; a probe call returns NULL only when one of
\* its calls failed, and one in which no call failed returns a registered
\* device, truncated strings or not.
C19_TruncationNonFatal ==
    /\ pc = "hid_data_alloc" =>
          /\ hidDevs[hid].st = "live"
          /\ NameTruncated(sensor_idx) =>
                /\ Emitted(NameWarning)
                /\ hidDevs[hid].name
                      = SubSeq(amd_sfh_get_sensor_name(sensor_idx), 1,
                               name_size - 1)
          /\ ~NameTruncated(sensor_idx) =>
                /\ ~Emitted(NameWarning)
                /\ hidDevs[hid].name = amd_sfh_get_sensor_name(sensor_idx)
          /\ PhysTruncated =>
                /\ Emitted(PhysWarning)
                /\ hidDevs[hid].phys = SubSeq(AMD_SFH_PHY_DEV, 1, phys_size - 1)
          /\ ~PhysTruncated => ~Emitted(PhysWarning)
    /\ (pc = "probe_ret" /\ ret = NULL) => failedStep # "none"
    /\ (pc = "probe_ret" /\ failedStep = "none") =>
          /\ ret # NULL
          /\ hidDevs[ret].added

\* C19 witness: the accelerometer's probe has returned a registered device
\* whose name and location were both truncated, with both warnings emitted.
C19_Witness ==
    /\ pc = "probe_ret"
    /\ ret # NULL
    /\ sensor_idx = "ACCEL_IDX"
    /\ NameTruncated(sensor_idx)
    /\ PhysTruncated
    /\ Emitted(NameWarning)
    /\ Emitted(PhysWarning)
    /\ Len(hidDevs[ret].name) = name_size - 1
    /\ hidDevs[ret].added

=============================================================================
